---- MODULE Spec2Model ----
(***************************************************************************)
(* Model of the whiteboard generation pipeline of                          *)
(* backend/services/whiteboard_graph.py: WhiteboardGraphService            *)
(* .run_pipeline, its extraction step (_extract_concepts_node,             *)
(* _parse_json_response, _generate_fallback_graph) and its layout step     *)
(* (_build_initial_board_node, _create_empty_snapshot), and of the         *)
(* handlers init_whiteboard and save_whiteboard of                         *)
(* backend/routers/whiteboard.py over the store of                         *)
(* backend/store/mongodb.py.                                               *)
(*                                                                         *)
(* Representation.                                                         *)
(*  - A Python dict with optional keys is a record whose fields hold the   *)
(*    value, ABSENT when the key is missing and NULL when it is None/null. *)
(*  - A text (the model's reply, the input text) is a sequence of lexical  *)
(*    tokens; strip/startswith/endswith/find/rfind/split act on tokens.    *)
(*  - A Python exception leaving a function is the field exc of the value  *)
(*    the operator returns.                                                *)
(*  - Coordinates are integers in 1/Scale of a canvas unit.                *)
(***************************************************************************)
EXTENDS Integers, Sequences, FiniteSets, TLC

VARIABLES
    pc,        \* call -> where the run_pipeline coroutine of that call stands
    state,     \* call -> the WhiteboardState dict of that call
    upstream,  \* call -> what the external text-generation request produced
    result,    \* call -> what run_pipeline returned
    db,        \* the MongoDBStore singleton: connected and its collection
    req,       \* request -> where the router's handler of that request stands
    clock      \* datetime.utcnow(), in ticks

vars == <<pc, state, upstream, result, db, req, clock>>

\* The variables of the router and the store, which the pipeline never
\* touches.
routerVars == <<db, req, clock>>

----------------------------------------------------------------------------
(* Python values *)

\* A dict key that is not present.
ABSENT == "<absent>"

\* None / JSON null.
NULL == "<null>"

\* None as the value of an Optional[dict] field.
None == [py |-> "None"]

\* Truthiness of a str-or-None value obtained with dict.get(key).
Truthy(v) == v # ABSENT /\ v # NULL /\ v # ""

\* dict.get(key, default) on a field that may be missing.
Get(v, default) == IF v = ABSENT THEN default ELSE v

\* The JSON numbers 1, 2 and 2.0 as json.loads returns them: int 1, int 2 and
\* float 2.0.
IntOne == "<1>"

IntTwo == "<2>"

FloatTwo == "<2.0>"

\* The value that stands for v among the keys of a dict and under == and in:
\* Python compares and hashes numbers by value, so 2.0 is the key 2.
Key(v) == IF v = FloatTwo THEN IntTwo ELSE v

----------------------------------------------------------------------------
(* Bounds of the model *)

\* Longest nodes array of a model reply.
MaxDeclared == 2

\* Longest edges array of a model reply.
MaxEdges == 1

\* Most nodes of a concept graph handed directly to the layout step.
MaxGraphNodes == 2

\* Most edges of a concept graph handed directly to the layout step.
MaxGraphEdges == 1

\* All sequences over S of length at most n.
SeqUpTo(S, n) == UNION {[1..k -> S] : k \in 0..n}

----------------------------------------------------------------------------
(* Texts: the input text and the model's reply *)

\* A whitespace run of a text.
WS == [t |-> "ws"]

\* The markdown fence that opens a json code block (three backquotes, json).
FenceJson == [t |-> "fence_json"]

\* The markdown fence of three backquotes.
Fence == [t |-> "fence"]

\* The character "{".
LBrace == [t |-> "{"]

\* The character "}".
RBrace == [t |-> "}"]

\* A run of prose without braces, fences or leading/trailing whitespace.
Prose == [t |-> "prose"]

\* The text between the braces of a well-formed JSON object; v is the object.
Members(v) == [t |-> "members", v |-> v]

\* Text between braces that is not the inside of a JSON object (truncated,
\* unquoted, ...).
Fragment == [t |-> "fragment"]

\* str.strip() : drop the whitespace at both ends.
RECURSIVE LStrip(_)
LStrip(s) == IF s # <<>> /\ Head(s).t = "ws" THEN LStrip(Tail(s)) ELSE s

RECURSIVE RStrip(_)
RStrip(s) ==
    IF s # <<>> /\ s[Len(s)].t = "ws" THEN RStrip(SubSeq(s, 1, Len(s) - 1)) ELSE s

Strip(s) == RStrip(LStrip(s))

\* Lines 147-154: strip, drop an opening fence, drop a closing fence, strip.
StripFences(content) ==
    LET c0 == Strip(content)
        c1 == IF c0 # <<>> /\ Head(c0).t = "fence_json" THEN Tail(c0)
              ELSE IF c0 # <<>> /\ Head(c0).t = "fence" THEN Tail(c0)
              ELSE c0
        c2 == IF c1 # <<>> /\ c1[Len(c1)].t = "fence"
              THEN SubSeq(c1, 1, Len(c1) - 1) ELSE c1
    IN  Strip(c2)

\* str.find("{"): 0-based index of the first "{", -1 when there is none.
Find(s) ==
    LET hits == {i \in 1..Len(s) : s[i].t = "{"}
    IN  IF hits = {} THEN -1
        ELSE (CHOOSE i \in hits : \A j \in hits : i <= j) - 1

\* str.rfind("}"): 0-based index of the last "}", -1 when there is none.
RFind(s) ==
    LET hits == {i \in 1..Len(s) : s[i].t = "}"}
    IN  IF hits = {} THEN -1
        ELSE (CHOOSE i \in hits : \A j \in hits : i >= j) - 1

\* content[start:end] with 0 <= start < end <= len(content).
Slice(s, start, end) == SubSeq(s, start + 1, end)

\* A parsed JSON object: keys is the set of keys it has; nodes and edges are
\* its arrays (the empty sequence when the key is missing).
Dict(keys, nodes, edges) == [keys |-> keys, nodes |-> nodes, edges |-> edges]

\* The object {}.
EmptyDict == Dict({}, <<>>, <<>>)

\* json.loads(json_str) for a text that starts with "{" and ends with "}":
\* the object, or JSONDecodeError.
JsonLoads(s) ==
    IF s = <<LBrace, RBrace>>
        THEN [exc |-> "none", value |-> EmptyDict]
    ELSE IF Len(s) = 3 /\ s[1] = LBrace /\ s[2].t = "members" /\ s[3] = RBrace
        THEN [exc |-> "none", value |-> s[2].v]
    ELSE [exc |-> "JSONDecodeError", value |-> EmptyDict]

----------------------------------------------------------------------------
(* Concept graphs *)

\* An entry of a nodes array: a JSON object with the keys id, label and
\* description (each a string, NULL or ABSENT), or a value that is no object.
Node(id, label, description) ==
    [obj |-> TRUE, id |-> id, label |-> label, description |-> description]

\* An entry of a nodes array that is not an object (a bare string).
NotANode == [obj |-> FALSE, id |-> ABSENT, label |-> ABSENT, description |-> ABSENT]

\* An entry of an edges array, likewise.
Edge(source, target, label) ==
    [obj |-> TRUE, source |-> source, target |-> target, label |-> label]

\* An entry of an edges array that is not an object.
NotAnEdge == [obj |-> FALSE, source |-> ABSENT, target |-> ABSENT, label |-> ABSENT]

\* The dict {"nodes": nodes, "edges": edges}.
Graph(nodes, edges) == [nodes |-> nodes, edges |-> edges]

\* What a function call produced: the exception that left it ("none" when it
\* returned) and the value it returned.
Returned(value) == [exc |-> "none", value |-> value]

Raised(exc) == [exc |-> exc, value |-> Graph(<<>>, <<>>)]

\* str.replace("_", " ").title() on the identifiers of the model.
Title(s) ==
    CASE s = "central" -> "Central"
      [] s = "b1" -> "B1"
      [] s = "b2" -> "B2"
      [] s = "x_y" -> "X Y"
      [] s = "x" -> "X"
      [] s = "y" -> "Y"
      [] s = "arrow_0" -> "Arrow 0"
      [] s = "arrow_1" -> "Arrow 1"
      [] s = "ghost" -> "Ghost"

\* Lines 172-179: the body of the loop over key, for the value v = edge.get(key)
\* of an edge that is a dict. acc holds nodes (the list) and ids (node_ids).
AddMissingMutant(acc, v) == acc

AddMissing(acc, v) ==
    IF Truthy(v) /\ Key(v) \notin acc.ids
        THEN [nodes |-> Append(acc.nodes, Node(v, Title(v), "")),
              ids |-> acc.ids \cup {Key(v)}]
        ELSE acc

\* Lines 170-179: the loop over edges from the i-th on; edge.get raises
\* AttributeError on an entry that is no dict.
RECURSIVE AutoCreate(_, _, _)
AutoCreate(acc, edges, i) ==
    IF i > Len(edges) THEN Returned(Graph(acc.nodes, edges))
    ELSE IF ~edges[i].obj THEN Raised("AttributeError")
    ELSE AutoCreate(AddMissing(AddMissing(acc, edges[i].source), edges[i].target),
                    edges, i + 1)

\* Line 169: node_ids = {n["id"] for n in nodes}; TypeError on an entry that
\* is no dict, KeyError on a dict without "id".
NodeIds(nodes) ==
    LET bad == {i \in 1..Len(nodes) : ~nodes[i].obj \/ nodes[i].id = ABSENT}
        first == CHOOSE i \in bad : \A j \in bad : i <= j
    IN  IF bad = {} THEN Returned({Key(nodes[i].id) : i \in 1..Len(nodes)})
        ELSE IF ~nodes[first].obj THEN [exc |-> "TypeError", value |-> {}]
        ELSE [exc |-> "KeyError", value |-> {}]

\* WhiteboardGraphService._parse_json_response.
ParseJsonResponse(content) ==
    LET c == StripFences(content)
        start == Find(c)
        end == RFind(c) + 1
    IN  IF start # -1 /\ end > start
        THEN LET loaded == JsonLoads(Slice(c, start, end))
                 nodes == loaded.value.nodes
                 edges == loaded.value.edges
                 ids == NodeIds(nodes)
             IN  IF loaded.exc = "JSONDecodeError" THEN Returned(Graph(<<>>, <<>>))
                 ELSE IF ids.exc # "none" THEN Raised(ids.exc)
                 ELSE AutoCreate([nodes |-> nodes, ids |-> ids.value], edges, 1)
        ELSE Returned(Graph(<<>>, <<>>))

----------------------------------------------------------------------------
(* The heuristic fallback *)

\* Line 191: words = text.split()[:100] keeps at most this many tokens.
WordLimit == 100

\* Line 192: a word is kept when len(w) is greater than this.
MinWordLen == 4

\* Line 192: at most this many words become branches.
BranchLimit == 6

\* The whitespace run of an input text.
Space == " "

\* str.isalpha() on the words of the model.
IsAlpha(w) == w \in {"graph", "neural", "tree"}

\* str.capitalize() on the words of the model.
Capitalize(w) ==
    CASE w = "graph" -> "Graph"
      [] w = "neural" -> "Neural"
      [] w = "tree" -> "Tree"
      [] w = "model5" -> "Model5"

\* seq[:n]
Take(s, n) == SubSeq(s, 1, IF Len(s) < n THEN Len(s) ELSE n)

\* str.split(): the maximal runs without whitespace.
Split(text) == SelectSeq(text, LAMBDA w : w # Space)

\* Line 192: the words that become branches.
ImportantWordsMutant(text) ==
    SelectSeq(Split(text), LAMBDA w : Len(w) >= MinWordLen /\ IsAlpha(w))

ImportantWords(text) ==
    Take(SelectSeq(Take(Split(text), WordLimit),
                   LAMBDA w : Len(w) > MinWordLen /\ IsAlpha(w)),
         BranchLimit)

\* WhiteboardGraphService._generate_fallback_graph.
GenerateFallbackGraph(text) ==
    LET important_words == ImportantWords(text)
        n == Len(important_words)
    IN  Graph(<<Node("central", "Main Topic", "")>>
                \o [i \in 1..n |->
                      Node("branch_" \o ToString(i - 1),
                           Capitalize(important_words[i]), "")],
              [i \in 1..n |-> Edge("central", "branch_" \o ToString(i - 1), "")])

----------------------------------------------------------------------------
(* The layout step *)

\* Coordinates are held in 1/Scale of a canvas unit.
Scale == 10 * 100

\* Line 273.
center_x == 600

\* Line 274.
center_y == 400

\* Line 275: distance from the centre to the branch nodes.
radius == 300

\* Line 278.
colors == <<"light-blue", "light-green", "yellow", "light-red", "orange", "violet">>

\* Line 321: the angle of branch i of num_branches, in degrees:
\* (2 * pi * i) / max(num_branches, 1) - pi / 2.
AngleDegMutant(i, num_branches) == 120 * i - 90

AngleDeg(i, num_branches) ==
    (360 * i) \div (IF num_branches > 1 THEN num_branches ELSE 1) - 90

\* math.cos, in 1/Scale, of an angle in degrees (the multiples of 30 and of 18
\* degrees that the branch counts of the model produce).
Cos(deg) ==
    LET d == deg % 360
    IN  CASE d = 0 -> 1000
          [] d = 30 -> 866
          [] d = 54 -> 588
          [] d = 60 -> 500
          [] d = 90 -> 0
          [] d = 120 -> -500
          [] d = 126 -> -588
          [] d = 150 -> -866
          [] d = 180 -> -1000
          [] d = 198 -> -951
          [] d = 210 -> -866
          [] d = 240 -> -500
          [] d = 270 -> 0
          [] d = 300 -> 500
          [] d = 330 -> 866
          [] d = 342 -> 951

\* math.sin, likewise.
Sin(deg) ==
    LET d == deg % 360
    IN  CASE d = 0 -> 0
          [] d = 30 -> 500
          [] d = 54 -> 809
          [] d = 60 -> 866
          [] d = 90 -> 1000
          [] d = 120 -> 866
          [] d = 126 -> 809
          [] d = 150 -> 500
          [] d = 180 -> 0
          [] d = 198 -> -309
          [] d = 210 -> -500
          [] d = 240 -> -866
          [] d = 270 -> -1000
          [] d = 300 -> -866
          [] d = 330 -> -500
          [] d = 342 -> -309

\* str(v) inside an f-string.
Str(v) ==
    CASE v = NULL -> "None"
      [] v = IntOne -> "1"
      [] v = IntTwo -> "2"
      [] v = FloatTwo -> "2.0"
      [] OTHER -> v

\* f"shape:{node['id']}"
ShapeId(id) == "shape:" \o Str(id)

\* f"shape:arrow_{k}"
ArrowId(k) == "shape:arrow_" \o ToString(k)

\* shapes[key] = value on a dict.
Put(d, key, value) == (key :> value) @@ d

\* {} : the dict without keys.
EmptyMap == [k \in {} |-> NULL]

\* The arrow binding of lines 380-386, 387-393, 433-439 and 440-446.
Binding(shape_id) ==
    [type |-> "binding",
     boundShapeId |-> shape_id,
     normalizedAnchor |-> [x |-> Scale \div 2, y |-> Scale \div 2],
     isExact |-> FALSE,
     isPrecise |-> FALSE]

\* Lines 285-312: the shape of the central node.
CentralShape(central_id, central_node) ==
    [id |-> central_id,
     type |-> "geo",
     x |-> (center_x - 100) * Scale,
     y |-> (center_y - 50) * Scale,
     rotation |-> 0,
     isLocked |-> FALSE,
     opacity |-> 1,
     props |-> [w |-> 200, h |-> 100, geo |-> "ellipse", color |-> "blue",
                labelColor |-> "black", fill |-> "solid", dash |-> "draw",
                size |-> "l", font |-> "sans",
                text |-> Get(central_node.label, "Main Topic"),
                align |-> "middle", verticalAlign |-> "middle", growY |-> 0,
                url |-> ""],
     parentId |-> "page:page",
     index |-> "a0",
     typeName |-> "shape"]

\* Lines 320-361: the shape of branch i (0-based) of num_branches.
BranchShape(shape_id, node, i, num_branches) ==
    LET angle == AngleDeg(i, num_branches)
    IN  [id |-> shape_id,
         type |-> "geo",
         x |-> center_x * Scale + radius * Cos(angle) - 90 * Scale,
         y |-> center_y * Scale + radius * Sin(angle) - 35 * Scale,
         rotation |-> 0,
         isLocked |-> FALSE,
         opacity |-> 1,
         props |-> [w |-> 180, h |-> 70, geo |-> "rectangle",
                    color |-> colors[(i % Len(colors)) + 1],
                    labelColor |-> "black", fill |-> "solid", dash |-> "draw",
                    size |-> "m", font |-> "sans",
                    text |-> Get(node.label, ""),
                    align |-> "middle", verticalAlign |-> "middle", growY |-> 0,
                    url |-> ""],
         parentId |-> "page:page",
         index |-> "a" \o ToString(i + 1),
         typeName |-> "shape"]

\* Lines 364-402: the arrow from the central node to branch i.
RootArrow(arrow_id, central_id, shape_id, i) ==
    [id |-> arrow_id,
     type |-> "arrow",
     x |-> center_x * Scale,
     y |-> center_y * Scale,
     rotation |-> 0,
     isLocked |-> FALSE,
     opacity |-> 1,
     props |-> [dash |-> "draw", size |-> "m", fill |-> "none", color |-> "grey",
                labelColor |-> "black", bend |-> 0,
                start |-> Binding(central_id),
                end |-> Binding(shape_id),
                arrowheadStart |-> "none", arrowheadEnd |-> "arrow",
                text |-> "", font |-> "draw"],
     parentId |-> "page:page",
     index |-> "b" \o ToString(i),
     typeName |-> "shape"]

\* Lines 417-455: the arrow of edge i (0-based) of the edge list.
EdgeArrow(arrow_id, edge, source_pos, i) ==
    [id |-> arrow_id,
     type |-> "arrow",
     x |-> source_pos.x,
     y |-> source_pos.y,
     rotation |-> 0,
     isLocked |-> FALSE,
     opacity |-> 1,
     props |-> [dash |-> "dashed", size |-> "s", fill |-> "none", color |-> "grey",
                labelColor |-> "black", bend |-> 20,
                start |-> Binding(ShapeId(edge.source)),
                end |-> Binding(ShapeId(edge.target)),
                arrowheadStart |-> "none", arrowheadEnd |-> "arrow",
                text |-> Get(edge.label, ""), font |-> "draw"],
     parentId |-> "page:page",
     index |-> "c" \o ToString(i),
     typeName |-> "shape"]

\* Lines 325-402: the dict shapes after the first n passes of the loop over
\* branch_nodes: each pass stores the branch's shape, then its arrow.
RECURSIVE BranchShapes(_, _, _, _)
BranchShapes(shapes, central_id, branch_nodes, n) ==
    IF n = 0 THEN shapes
    ELSE LET i == n - 1
             node == branch_nodes[n]
             shape_id == ShapeId(node.id)
             arrow_id == ArrowId(i)
         IN  Put(Put(BranchShapes(shapes, central_id, branch_nodes, n - 1),
                     shape_id, BranchShape(shape_id, node, i, Len(branch_nodes))),
                 arrow_id, RootArrow(arrow_id, central_id, shape_id, i))

\* Lines 326-329: the dict node_positions after the first n passes.
RECURSIVE BranchPositions(_, _, _)
BranchPositions(node_positions, branch_nodes, n) ==
    IF n = 0 THEN node_positions
    ELSE LET angle == AngleDeg(n - 1, Len(branch_nodes))
         IN  Put(BranchPositions(node_positions, branch_nodes, n - 1),
                 Key(branch_nodes[n].id),
                 [x |-> center_x * Scale + radius * Cos(angle),
                  y |-> center_y * Scale + radius * Sin(angle)])

\* Lines 319-402: the loop over branch_nodes; acc holds shapes and
\* node_positions. node['id'] raises KeyError on a node without "id".
BranchLoop(acc, central_id, branch_nodes) ==
    IF \E k \in 1..Len(branch_nodes) : branch_nodes[k].id = ABSENT
    THEN Raised("KeyError")
    ELSE Returned(
           [shapes |-> BranchShapes(acc.shapes, central_id, branch_nodes,
                                    Len(branch_nodes)),
            node_positions |-> BranchPositions(acc.node_positions, branch_nodes,
                                               Len(branch_nodes))])

\* Lines 407-415: whether the edge loop skips an edge: an end without a
\* layout position, or a source that is the central node.
SkipEdgeMutant(edge, node_positions, central_node) ==
    \/ Key(edge.source) \notin DOMAIN node_positions
    \/ Key(edge.target) \notin DOMAIN node_positions

SkipEdge(edge, node_positions, central_node) ==
    \/ Key(edge.source) \notin DOMAIN node_positions
    \/ Key(edge.target) \notin DOMAIN node_positions
    \/ Key(edge.source) = Key(central_node.id)

\* Lines 406-455: the loop over edges from index i (0-based) on.
\* edge["source"] and edge["target"] raise KeyError on a missing key.
RECURSIVE EdgeLoop(_, _, _, _, _, _)
EdgeLoop(shapes, node_positions, central_node, arrow_offset, edges, i) ==
    IF i >= Len(edges) THEN Returned(shapes)
    ELSE LET edge == edges[i + 1]
             arrow_id == ArrowId(arrow_offset + i)
         IN  IF edge.source = ABSENT \/ edge.target = ABSENT THEN Raised("KeyError")
             ELSE IF SkipEdge(edge, node_positions, central_node)
                 THEN EdgeLoop(shapes, node_positions, central_node, arrow_offset,
                               edges, i + 1)
             ELSE EdgeLoop(Put(shapes, arrow_id,
                               EdgeArrow(arrow_id, edge,
                                         node_positions[Key(edge.source)], i)),
                           node_positions, central_node, arrow_offset, edges, i + 1)

\* Lines 218-224 and 460-466.
DocumentRecord ==
    [id |-> "document:document", gridSize |-> 10, name |-> "", meta |-> EmptyMap,
     typeName |-> "document"]

\* Lines 225-231 and 467-473.
PageRecord ==
    [id |-> "page:page", name |-> "Page 1", index |-> "a1", meta |-> EmptyMap,
     typeName |-> "page"]

\* {"version": v, "subTypeKey": "type", "subTypeVersions": {}}
SubTyped(v) == [version |-> v, subTypeKey |-> "type", subTypeVersions |-> EmptyMap]

\* Lines 233-247: the schema block of the empty snapshot.
EmptySchema ==
    [schemaVersion |-> 1,
     storeVersion |-> 4,
     recordVersions |->
        [asset |-> SubTyped(1), camera |-> [version |-> 1],
         document |-> [version |-> 2], instance |-> [version |-> 22],
         instance_page_state |-> [version |-> 5], page |-> [version |-> 1],
         shape |-> SubTyped(3), instance_presence |-> [version |-> 5],
         pointer |-> [version |-> 1]]]

\* Lines 476-490: the schema block of a populated snapshot.
BoardSchemaMutant == [EmptySchema EXCEPT !.storeVersion = 3]

BoardSchema ==
    [schemaVersion |-> 1,
     storeVersion |-> 4,
     recordVersions |->
        [asset |-> SubTyped(1), camera |-> [version |-> 1],
         document |-> [version |-> 2], instance |-> [version |-> 22],
         instance_page_state |-> [version |-> 5], page |-> [version |-> 1],
         shape |-> SubTyped(3), instance_presence |-> [version |-> 5],
         pointer |-> [version |-> 1]]]

\* WhiteboardGraphService._create_empty_snapshot.
CreateEmptySnapshot ==
    [store |-> Put(Put(EmptyMap, "document:document", DocumentRecord),
                   "page:page", PageRecord),
     schema |-> EmptySchema]

\* Lines 458-491: the snapshot of a non-empty graph; the shapes are spread
\* after the document and the page record.
BoardSnapshot(shapes) ==
    [store |->
        shapes @@ Put(Put(EmptyMap, "document:document",
                          [id |-> "document:document", gridSize |-> 10, name |-> "",
                           meta |-> EmptyMap, typeName |-> "document"]),
                      "page:page",
                      [id |-> "page:page", name |-> "Page 1", index |-> "a1",
                       meta |-> EmptyMap, typeName |-> "page"]),
     schema |-> BoardSchema]

\* WhiteboardGraphService._build_initial_board_node, from the concept graph of
\* the state to the snapshot it stores (or the exception that leaves it).
BuildInitialBoard(concept_graph) ==
    IF concept_graph = None THEN Raised("AttributeError")
    ELSE LET nodes == concept_graph.nodes
             edges == concept_graph.edges
         IN  IF nodes = <<>> THEN Returned(CreateEmptySnapshot)
             ELSE LET central_node == nodes[1]
                      central_id == ShapeId(central_node.id)
                      branch_nodes == Tail(nodes)
                      branches ==
                        BranchLoop(
                          [shapes |-> Put(EmptyMap, central_id,
                                          CentralShape(central_id, central_node)),
                           node_positions |->
                              Put(EmptyMap, Key(central_node.id),
                                  [x |-> center_x * Scale, y |-> center_y * Scale])],
                          central_id, branch_nodes)
                      arrow_offset == Len(branch_nodes)
                      all == EdgeLoop(branches.value.shapes,
                                      branches.value.node_positions, central_node,
                                      arrow_offset, edges, 0)
                  IN  IF central_node.id = ABSENT THEN Raised("KeyError")
                      ELSE IF branches.exc # "none" THEN Raised(branches.exc)
                      ELSE IF all.exc # "none" THEN Raised(all.exc)
                      ELSE Returned(BoardSnapshot(all.value))

----------------------------------------------------------------------------
(* Inputs of the model *)

\* A text of WordLimit short words followed by one long alphabetic word.
LongText ==
    [i \in 1..(2 * WordLimit + 1) |->
        IF i % 2 = 0 THEN Space ELSE IF i > 2 * WordLimit THEN "graph" ELSE "tree"]

\* The input texts: no text, one kept word, a word that is not alphabetic, a
\* short word and a kept word, kept words around a short one and around a
\* word that is not alphabetic, more kept words than BranchLimit, and a kept
\* word beyond the first WordLimit words.
Texts ==
    {<<>>,
     <<"graph">>,
     <<"model5">>,
     <<"tree", Space, "neural">>,
     <<"neural", Space, "tree", Space, "graph">>,
     <<Space, "model5", Space, "graph", Space, "neural", Space>>,
     <<"graph", Space, "neural", Space, "graph", Space, "neural", Space,
       "graph", Space, "neural", Space, "graph">>,
     LongText}

\* The entries of the nodes array of a reply.
NodeEntries ==
    {Node("central", "AI", ""),
     Node("b1", "ML", ""),
     Node("arrow_0", ABSENT, ""),
     Node(ABSENT, "NLP", ""),
     NotANode}

\* The entries of the edges array of a reply.
EdgeEntries ==
    {Edge("central", "b1", ""),
     Edge("b1", "central", "uses"),
     Edge("b1", "x_y", ABSENT),
     Edge("", "b1", ""),
     Edge(NULL, "b1", ""),
     Edge(ABSENT, "central", ""),
     NotAnEdge}

\* The JSON objects of a reply: with both arrays, and with a key missing.
Dicts ==
    {Dict({"nodes", "edges"}, ns, es) :
        ns \in SeqUpTo(NodeEntries, MaxDeclared), es \in SeqUpTo(EdgeEntries, MaxEdges)}
    \cup {Dict({"edges"}, <<>>, es) : es \in SeqUpTo(EdgeEntries, MaxEdges)}
    \cup {Dict({"nodes"}, ns, <<>>) : ns \in SeqUpTo(NodeEntries, MaxDeclared)}

\* The JSON objects that are also sent fenced or wrapped in prose.
WrappedDicts ==
    {Dict({"nodes", "edges"}, <<>>, <<Edge("x_y", "b1", "")>>),
     Dict({"nodes", "edges"}, <<>>, <<Edge("x", "y", ABSENT)>>),
     Dict({"nodes", "edges"}, <<Node("b1", "ML", "")>>,
          <<Edge("y", "b1", ""), Edge("x", "y", "")>>),
     Dict({"nodes", "edges"}, <<Node("central", "AI", ""), Node("b1", "ML", "")>>,
          <<Edge("central", "b1", "")>>)}

\* The text of a JSON object.
ObjectText(d) == <<LBrace, Members(d), RBrace>>

\* Replies that hold no JSON object: the empty string, prose, a brace pair in
\* the wrong order, truncated JSON, malformed JSON, prose with braces before
\* an object, fenced prose.
UnparseableContents ==
    {<<>>,
     <<Prose>>,
     <<WS, Prose, WS, Prose>>,
     <<RBrace, Prose, LBrace>>,
     <<LBrace, Fragment>>,
     <<LBrace, Fragment, RBrace>>,
     <<FenceJson, WS, Prose, WS, Fence>>}
    \cup {<<Prose, LBrace, Prose, RBrace, WS>> \o ObjectText(d) : d \in WrappedDicts}

\* The replies of the model: a JSON object bare, fenced, or inside prose, the
\* empty object, and the replies without an object.
Contents ==
    {ObjectText(d) : d \in Dicts}
    \cup {<<FenceJson, WS>> \o ObjectText(d) \o <<WS, Fence>> : d \in WrappedDicts}
    \cup {<<Fence, WS>> \o ObjectText(d) \o <<WS, Fence, WS>> : d \in WrappedDicts}
    \cup {<<Prose, WS>> \o ObjectText(d) \o <<WS, Prose>> : d \in WrappedDicts}
    \cup {<<LBrace, RBrace>>}
    \cup UnparseableContents

\* What the external request produced.
Outcome(kind, content) == [kind |-> kind, content |-> content]

\* The request has not been answered.
Pending == Outcome("pending", <<>>)

\* The ways the external text-generation request can end:
\*   request_raises    client.post raises (connection error, timeout)
\*   body_undecodable  response.json() raises
\*   no_choices        the body has no "choices": the defaults give ""
\*   empty_choices     "choices" is []: IndexError
\*   null_content      "content" is null: content.strip() raises
\*   content           the body carries a reply text
NoReplyOutcomes ==
    {Outcome(k, <<>>) : k \in {"request_raises", "body_undecodable", "no_choices",
                               "empty_choices", "null_content"}}

Outcomes == NoReplyOutcomes \cup {Outcome("content", c) : c \in Contents}

\* The concept graphs handed directly to the layout step.
GraphIds == {"central", "b1", "arrow_0"}

GraphNodes == {Node(id, Title(id), "") : id \in GraphIds}

GraphEdges ==
    {Edge(s, t, "") : s, t \in GraphIds \cup {"ghost"}}
    \cup {Edge("b1", "central", ABSENT), Edge(ABSENT, "b1", "")}

\* A graph whose ids are JSON numbers, as extraction returns it for the reply
\* {"nodes": [{"id": 1, ...}, {"id": 2, ...}],
\*  "edges": [{"source": 2.0, "target": 1}]}.
NumberGraph ==
    Graph(<<Node(IntOne, "AI", ""), Node(IntTwo, "ML", "")>>,
          <<Edge(FloatTwo, IntOne, "")>>)

\* The graph of a root with two branches and the two root-to-branch edges.
TwoBranchGraph ==
    Graph(<<Node("central", "AI", ""), Node("b1", "ML", ""), Node("b2", "NLP", "")>>,
          <<Edge("central", "b1", ""), Edge("central", "b2", "")>>)

Graphs ==
    {Graph(ns, es) :
        ns \in SeqUpTo(GraphNodes, MaxGraphNodes), es \in SeqUpTo(GraphEdges, MaxGraphEdges)}
    \cup {NumberGraph, TwoBranchGraph}

----------------------------------------------------------------------------
(* The store of store/mongodb.py *)

\* MongoDBStore._make_namespace.
MakeNamespace(user_id) == "memry/" \o user_id \o "/whiteboards"

\* The MongoDBStore singleton: connected, and the documents of
\* db.whiteboards by (namespace, key).
Store(connected, whiteboards) == [connected |-> connected, whiteboards |-> whiteboards]

\* MongoDBStore.get: None when the store is not connected or holds no
\* document for the key, the document's value otherwise.
StoreGet(store, user_id, lecture_id) ==
    LET k == <<MakeNamespace(user_id), lecture_id>>
    IN  IF ~store.connected THEN None
        ELSE IF k \in DOMAIN store.whiteboards THEN store.whiteboards[k].value
        ELSE None

\* MongoDBStore.put at the time now: the upsert sets the value, and on insert
\* the namespace, the key and created_at; a store that is not connected
\* writes nothing.
StorePut(store, now, user_id, lecture_id, tldraw_snapshot, concept_graph) ==
    LET namespace == MakeNamespace(user_id)
        k == <<namespace, lecture_id>>
        value == [tldraw_snapshot |-> tldraw_snapshot,
                  concept_graph |-> concept_graph,
                  updated_at |-> now]
    IN  IF ~store.connected THEN store
        ELSE Store(TRUE,
                   Put(store.whiteboards, k,
                       [namespace |-> namespace,
                        key |-> lecture_id,
                        value |-> value,
                        created_at |-> IF k \in DOMAIN store.whiteboards
                                       THEN store.whiteboards[k].created_at
                                       ELSE now]))

\* No request has been made: the store holds no document.
RouterIdle ==
    /\ db = Store(FALSE, EmptyMap)
    /\ req = <<>>
    /\ clock = 0

----------------------------------------------------------------------------
(* run_pipeline *)

\* The calls of run_pipeline in flight.
Calls == {1}

\* Lines 57-62: the initial WhiteboardState.
InitialState(lecture_id, text) ==
    [lecture_id |-> lecture_id, input_text |-> text, concept_graph |-> None,
     tldraw_snapshot |-> None]

\* Lines 130-131: the content taken from the decoded body (an exception when
\* the body offers none).
ContentOf(r) ==
    CASE r.kind = "request_raises" -> Raised("HTTPError")
      [] r.kind = "body_undecodable" -> Raised("JSONDecodeError")
      [] r.kind = "empty_choices" -> Raised("IndexError")
      [] r.kind = "null_content" -> Raised("AttributeError")
      [] r.kind = "no_choices" -> Returned(<<>>)
      [] r.kind = "content" -> Returned(r.content)

\* Lines 114-142: the concept graph _extract_concepts_node stores; every
\* exception of the try block is caught and replaced by the fallback graph.
ExtractConceptsMutant(input_text, r) ==
    LET content == ContentOf(r)
        parsed == ParseJsonResponse(content.value)
    IN  IF content.exc # "none" THEN Graph(<<>>, <<>>)
        ELSE IF parsed.exc # "none" THEN GenerateFallbackGraph(input_text)
        ELSE parsed.value

ExtractConcepts(input_text, r) ==
    LET content == ContentOf(r)
        parsed == ParseJsonResponse(content.value)
    IN  IF content.exc # "none" THEN GenerateFallbackGraph(input_text)
        ELSE IF parsed.exc # "none" THEN GenerateFallbackGraph(input_text)
        ELSE parsed.value

Init ==
    /\ pc = [c \in Calls |-> "idle"]
    /\ state = [c \in Calls |-> None]
    /\ upstream = [c \in Calls |-> Pending]
    /\ result = [c \in Calls |-> None]
    /\ RouterIdle

\* Lines 45-65, up to the await of the request: the state is initialised with
\* one of texts.
RunPipelineOn(c, texts) ==
    /\ pc[c] = "idle"
    /\ \E text \in texts :
          state' = [state EXCEPT ![c] = InitialState("lecture", text)]
    /\ pc' = [pc EXCEPT ![c] = "extract"]
    /\ UNCHANGED <<upstream, result, routerVars>>

RunPipeline(c) == RunPipelineOn(c, Texts)

\* Lines 114-142: the request ends in one of outcomes and
\* _extract_concepts_node completes.
ExtractConceptsOn(c, outcomes) ==
    /\ pc[c] = "extract"
    /\ \E r \in outcomes :
          /\ upstream' = [upstream EXCEPT ![c] = r]
          /\ state' = [state EXCEPT ![c].concept_graph =
                          ExtractConcepts(state[c].input_text, r)]
    /\ pc' = [pc EXCEPT ![c] = "build"]
    /\ UNCHANGED <<result, routerVars>>

ExtractConceptsNode(c) == ExtractConceptsOn(c, Outcomes)

\* Line 66 and lines 250-494: _build_initial_board_node; an exception leaves
\* run_pipeline.
BuildInitialBoardNode(c) ==
    /\ pc[c] = "build"
    /\ LET built == BuildInitialBoard(state[c].concept_graph)
       IN  IF built.exc = "none"
           THEN /\ state' = [state EXCEPT ![c].tldraw_snapshot = built.value]
                /\ pc' = [pc EXCEPT ![c] = "return"]
           ELSE /\ state' = state
                /\ pc' = [pc EXCEPT ![c] = "raised"]
    /\ UNCHANGED <<upstream, result, routerVars>>

\* Lines 68-71: run_pipeline returns.
ReturnMutant(c) ==
    /\ pc[c] = "return"
    /\ result' = [d \in DOMAIN result |->
                    IF d = c \/ pc[d] = "done"
                    THEN [tldraw_snapshot |-> state[c].tldraw_snapshot,
                          concept_graph |-> state[c].concept_graph]
                    ELSE result[d]]
    /\ pc' = [pc EXCEPT ![c] = "done"]
    /\ UNCHANGED <<state, upstream, routerVars>>

Return(c) ==
    /\ pc[c] = "return"
    /\ result' = [result EXCEPT ![c] =
                    [tldraw_snapshot |-> state[c].tldraw_snapshot,
                     concept_graph |-> state[c].concept_graph]]
    /\ pc' = [pc EXCEPT ![c] = "done"]
    /\ UNCHANGED <<state, upstream, routerVars>>

Next ==
    \E c \in Calls :
        \/ RunPipeline(c)
        \/ ExtractConceptsNode(c)
        \/ BuildInitialBoardNode(c)
        \/ Return(c)

Spec == Init /\ [][Next]_vars

\* The pipeline while the text-generation service delivers no reply text: the
\* request raises, or its body is undecodable or carries no content. The
\* event loop resumes every coroutine that can run (weak fairness).
ServiceDownNext ==
    \E c \in Calls :
        \/ RunPipeline(c)
        \/ ExtractConceptsOn(c, NoReplyOutcomes)
        \/ BuildInitialBoardNode(c)
        \/ Return(c)

ServiceDownSpec == Init /\ [][ServiceDownNext]_vars /\ WF_vars(ServiceDownNext)

\* Two calls of run_pipeline on the one WhiteboardGraphService that
\* get_whiteboard_service returns (lines 497-507), interleaved at the await
\* points of lines 65, 66 and 115-128.
PairCalls == {1, 2}

\* The input texts of the two calls.
PairTexts == {<<"graph">>, <<"tree", Space, "neural">>}

\* How the request of either call can end: it raises, or it carries a graph
\* with a branch, an edge without source, or prose.
PairOutcomes ==
    {Outcome("request_raises", <<>>),
     Outcome("content",
             ObjectText(Dict({"nodes", "edges"},
                             <<Node("central", "AI", ""), Node("b1", "ML", "")>>,
                             <<Edge("central", "b1", "")>>))),
     Outcome("content",
             ObjectText(Dict({"edges"}, <<>>, <<Edge(ABSENT, "central", "")>>))),
     Outcome("content", <<Prose>>)}

PairInit ==
    /\ pc = [c \in PairCalls |-> "idle"]
    /\ state = [c \in PairCalls |-> None]
    /\ upstream = [c \in PairCalls |-> Pending]
    /\ result = [c \in PairCalls |-> None]
    /\ RouterIdle

PairNext ==
    \E c \in PairCalls :
        \/ RunPipelineOn(c, PairTexts)
        \/ ExtractConceptsOn(c, PairOutcomes)
        \/ BuildInitialBoardNode(c)
        \/ Return(c)

PairSpec == PairInit /\ [][PairNext]_vars

\* The layout step called on a concept graph of its own.
LayoutInit ==
    /\ pc = [c \in Calls |-> "build"]
    /\ \E g \in Graphs :
          state = [c \in Calls |->
                     [InitialState("lecture", <<>>) EXCEPT !.concept_graph = g]]
    /\ upstream = [c \in Calls |-> Pending]
    /\ result = [c \in Calls |-> None]
    /\ RouterIdle

LayoutNext == \E c \in Calls : BuildInitialBoardNode(c) \/ Return(c)

LayoutSpec == LayoutInit /\ [][LayoutNext]_vars

----------------------------------------------------------------------------
(* The handlers of routers/whiteboard.py *)

\* Most requests made to the router.
MaxRequests == 2

Requests == 1..MaxRequests

\* The user_id and lecture_id every request of the model carries.
UserId == "default"

LectureId == "lecture"

\* The text of an init request.
RouterTexts == {<<"graph">>}

\* How the text-generation request of an init request can end: it raises,
\* or its reply holds a root with a branch, a root without label, or an edge
\* without source.
RouterOutcomes ==
    {Outcome("request_raises", <<>>),
     Outcome("content",
             ObjectText(Dict({"nodes", "edges"},
                             <<Node("central", "AI", ""), Node("b1", "ML", "")>>,
                             <<Edge("central", "b1", "")>>))),
     Outcome("content",
             ObjectText(Dict({"nodes", "edges"},
                             <<Node("central", ABSENT, ABSENT)>>, <<>>))),
     Outcome("content",
             ObjectText(Dict({"edges"}, <<>>, <<Edge(ABSENT, "central", "")>>)))}

\* The snapshot a save request carries: the canvas after an edit by the user.
EditedSnapshot ==
    [store |-> Put(CreateEmptySnapshot.store, "shape:note",
                   [id |-> "shape:note", type |-> "text", typeName |-> "shape"]),
     schema |-> BoardSchema]

SaveBodies == {EditedSnapshot}

\* models/schemas.py, ConceptNode: id and label are required strings, the
\* description is None when missing.
ValidNode(n) == n.obj /\ n.id \notin {ABSENT, NULL} /\ n.label \notin {ABSENT, NULL}

ConceptNodeModel(n) ==
    [id |-> n.id, label |-> n.label, description |-> Get(n.description, NULL)]

\* models/schemas.py, ConceptEdge: source and target are required strings,
\* the label is None when missing.
ValidEdge(e) == e.obj /\ e.source \notin {ABSENT, NULL} /\ e.target \notin {ABSENT, NULL}

ConceptEdgeModel(e) ==
    [source |-> e.source, target |-> e.target, label |-> Get(e.label, NULL)]

\* ConceptGraph(**graph): the validated model, or pydantic's ValidationError.
ConceptGraphModel(graph) ==
    IF /\ \A i \in 1..Len(graph.nodes) : ValidNode(graph.nodes[i])
       /\ \A i \in 1..Len(graph.edges) : ValidEdge(graph.edges[i])
    THEN Returned([nodes |-> [i \in 1..Len(graph.nodes) |->
                                ConceptNodeModel(graph.nodes[i])],
                   edges |-> [i \in 1..Len(graph.edges) |->
                                ConceptEdgeModel(graph.edges[i])]])
    ELSE Raised("ValidationError")

\* ConceptGraph(): the model without nodes and edges.
EmptyConceptGraph == [nodes |-> <<>>, edges |-> <<>>]

\* A response of status 200 and the HTTPException of status 500.
Ok(body) == [status |-> 200, body |-> body]

ServerError == [status |-> 500, body |-> None]

\* Lines 102-107 and 123-127: the WhiteboardInitResponse; building the
\* ConceptGraph may raise, which the handler turns into status 500.
InitResponse(tldraw_snapshot, concept_graph) ==
    IF concept_graph.exc # "none" THEN ServerError
    ELSE Ok([lecture_id |-> LectureId,
             tldraw_snapshot |-> tldraw_snapshot,
             concept_graph |-> concept_graph.value])

\* Lines 157-161: the WhiteboardSaveResponse.
SaveResponse == Ok([lecture_id |-> LectureId, success |-> TRUE])

\* A request that has not been made.
NewRequest ==
    [kind |-> "none", pc |-> "new", tldraw_snapshot |-> None, existing |-> None,
     concept_graph |-> None, response |-> None, after |-> {}]

\* The requests that have been answered.
Responded == {q \in DOMAIN req : req[q].pc = "responded"}

\* An init request arrives (line 84); after notes the requests answered
\* before it.
InitWhiteboard(r) ==
    /\ req[r].pc = "new"
    /\ req' = [req EXCEPT ![r].kind = "init", ![r].pc = "get", ![r].after = Responded]
    /\ UNCHANGED <<pc, state, upstream, result, db, clock>>

\* Lines 100-107: store.get answers; a stored whiteboard is returned as it
\* is, otherwise the handler goes on to the pipeline.
InitGet(r) ==
    /\ req[r].kind = "init"
    /\ req[r].pc = "get"
    /\ LET existing == StoreGet(db, UserId, LectureId)
       IN  IF existing # None
           THEN req' = [req EXCEPT
                          ![r].existing = existing,
                          ![r].pc = "responded",
                          ![r].response =
                              InitResponse(existing.tldraw_snapshot,
                                           IF existing.concept_graph # None
                                           THEN ConceptGraphModel(existing.concept_graph)
                                           ELSE Returned(EmptyConceptGraph))]
           ELSE req' = [req EXCEPT ![r].pc = "pipeline"]
    /\ UNCHANGED <<pc, state, upstream, result, db, clock>>

\* Lines 110-113: the handler calls run_pipeline.
InitRunPipeline(r) ==
    /\ req[r].pc = "pipeline"
    /\ RunPipelineOn(r, RouterTexts)

\* Lines 116-127: run_pipeline has returned; store.put writes the result,
\* then the response is built.
InitPut(r) ==
    /\ req[r].pc = "pipeline"
    /\ pc[r] = "done"
    /\ db' = StorePut(db, clock, UserId, LectureId, result[r].tldraw_snapshot,
                      result[r].concept_graph)
    /\ clock' = clock + 1
    /\ req' = [req EXCEPT
                 ![r].pc = "responded",
                 ![r].response = InitResponse(result[r].tldraw_snapshot,
                                              ConceptGraphModel(result[r].concept_graph))]
    /\ UNCHANGED <<pc, state, upstream, result>>

\* Lines 129-130: run_pipeline raised; the handler answers with status 500.
InitFail(r) ==
    /\ req[r].pc = "pipeline"
    /\ pc[r] = "raised"
    /\ req' = [req EXCEPT ![r].pc = "responded", ![r].response = ServerError]
    /\ UNCHANGED <<pc, state, upstream, result, db, clock>>

\* A save request arrives (line 134) with the snapshot to store.
SaveWhiteboard(r) ==
    /\ req[r].pc = "new"
    /\ \E snapshot \in SaveBodies :
          req' = [req EXCEPT ![r].kind = "save", ![r].pc = "get",
                             ![r].tldraw_snapshot = snapshot,
                             ![r].after = Responded]
    /\ UNCHANGED <<pc, state, upstream, result, db, clock>>

\* Lines 146-147: store.get answers; the handler keeps the concept graph of
\* the stored whiteboard, None when there is none.
SaveGet(r) ==
    /\ req[r].kind = "save"
    /\ req[r].pc = "get"
    /\ LET existing == StoreGet(db, UserId, LectureId)
       IN  req' = [req EXCEPT
                     ![r].existing = existing,
                     ![r].concept_graph =
                         IF existing # None THEN existing.concept_graph ELSE None,
                     ![r].pc = "put"]
    /\ UNCHANGED <<pc, state, upstream, result, db, clock>>

\* Lines 150-161: store.put writes the request's snapshot with the concept
\* graph the handler kept, and the handler answers.
SavePut(r) ==
    /\ req[r].kind = "save"
    /\ req[r].pc = "put"
    /\ db' = StorePut(db, clock, UserId, LectureId, req[r].tldraw_snapshot,
                      req[r].concept_graph)
    /\ clock' = clock + 1
    /\ req' = [req EXCEPT ![r].pc = "responded", ![r].response = SaveResponse]
    /\ UNCHANGED <<pc, state, upstream, result>>

\* The router at startup: MongoDBStore.connect has succeeded or failed.
RouterInit ==
    /\ pc = [r \in Requests |-> "idle"]
    /\ state = [r \in Requests |-> None]
    /\ upstream = [r \in Requests |-> Pending]
    /\ result = [r \in Requests |-> None]
    /\ \E connected \in BOOLEAN : db = Store(connected, EmptyMap)
    /\ req = [r \in Requests |-> NewRequest]
    /\ clock = 0

RouterNext ==
    \E r \in Requests :
        \/ InitWhiteboard(r)
        \/ InitGet(r)
        \/ InitRunPipeline(r)
        \/ ExtractConceptsOn(r, RouterOutcomes)
        \/ BuildInitialBoardNode(r)
        \/ Return(r)
        \/ InitPut(r)
        \/ InitFail(r)
        \/ SaveWhiteboard(r)
        \/ SaveGet(r)
        \/ SavePut(r)

RouterSpec == RouterInit /\ [][RouterNext]_vars

----------------------------------------------------------------------------
(* Vocabulary of the properties *)

\* The extraction step of call c has completed.
Extracted(c) == pc[c] \in {"build", "return", "done", "raised"}

\* The layout step of call c has completed and stored a snapshot.
LaidOut(c) == pc[c] \in {"return", "done"}

\* The reply text of call c, when the request produced one.
HasReply(c) == upstream[c].kind = "content"

\* The JSON object _parse_json_response reads from a reply (line 162).
Loaded(content) ==
    LET c == StripFences(content)
    IN  IF Find(c) # -1 /\ RFind(c) + 1 > Find(c)
        THEN JsonLoads(Slice(c, Find(c), RFind(c) + 1))
        ELSE [exc |-> "no object", value |-> EmptyDict]

\* The reply is valid JSON with a nodes array and an edges array.
HasBothArrays(content) ==
    Loaded(content).exc = "none" /\ Loaded(content).value.keys = {"nodes", "edges"}

\* The reply cannot be parsed as a JSON object.
Unparseable(content) == Loaded(content).exc # "none"

\* The ids of the nodes of a concept graph.
IdsOf(g) == {g.nodes[i].id : i \in 1..Len(g.nodes)}

\* The records of a store that are shapes.
ShapeKeys(store) == DOMAIN store \ {"document:document", "page:page"}

GeoKeys(store) == {k \in ShapeKeys(store) : store[k].type = "geo"}

ArrowKeys(store) == {k \in ShapeKeys(store) : store[k].type = "arrow"}

\* The edges of g that the layout step draws: source not the central node,
\* both ends placed.
QualifyingEdges(g) ==
    {i \in 1..Len(g.edges) :
        /\ g.edges[i].source # g.nodes[1].id
        /\ g.edges[i].source \in IdsOf(g)
        /\ g.edges[i].target \in IdsOf(g)}

----------------------------------------------------------------------------
(* C1 *)

\* C1 as stated: for every reply that is valid JSON with a nodes and an edges
\* array, every edge of the extracted graph has its source and its target
\* among the ids of the extracted nodes, empty, null and absent ends included.
C1_ReferentialClosure ==
    \A c \in Calls :
        (Extracted(c) /\ HasReply(c) /\ HasBothArrays(upstream[c].content)) =>
            LET g == state[c].concept_graph
            IN  \A i \in 1..Len(g.edges) :
                    g.edges[i].source \in IdsOf(g) /\ g.edges[i].target \in IdsOf(g)

\* C1 amended: for every reply that is valid JSON with a nodes and an edges
\* array, every edge end of the extracted graph that is a non-empty string is
\* the id of a node of the extracted graph.
C1_NonEmptyEndsResolve ==
    \A c \in Calls :
        (Extracted(c) /\ HasReply(c) /\ HasBothArrays(upstream[c].content)) =>
            LET g == state[c].concept_graph
            IN  \A i \in 1..Len(g.edges) :
                    /\ Truthy(g.edges[i].source) => g.edges[i].source \in IdsOf(g)
                    /\ Truthy(g.edges[i].target) => g.edges[i].target \in IdsOf(g)

\* A reply whose edge names an undeclared node has been extracted, and the
\* node has been created.
C1_Witness ==
    \E c \in Calls :
        /\ Extracted(c) /\ HasReply(c) /\ HasBothArrays(upstream[c].content)
        /\ Loaded(upstream[c].content).value.edges = <<Edge("b1", "x_y", ABSENT)>>
        /\ Loaded(upstream[c].content).value.nodes = <<Node("b1", "ML", "")>>
        /\ IdsOf(state[c].concept_graph) = {"b1", "x_y"}

----------------------------------------------------------------------------
(* C2 *)

\* C2: for every reply that cannot be parsed as a JSON object, the extracted
\* graph is the heuristic fallback graph: its first node is central and no
\* other node is; it is never the graph without nodes.
C2_UnparseableGivesFallback ==
    \A c \in Calls :
        (Extracted(c) /\ HasReply(c) /\ Unparseable(upstream[c].content)) =>
            LET g == state[c].concept_graph
            IN  /\ g.nodes # <<>>
                /\ g.nodes[1].id = "central"
                /\ \A i \in 2..Len(g.nodes) : g.nodes[i].id # "central"
                /\ g = GenerateFallbackGraph(state[c].input_text)

----------------------------------------------------------------------------
(* C3 *)

\* C3: for every input text and every reply, run_pipeline does not raise:
\* neither the extraction step nor the layout step ends in an exception, and
\* what it returns holds a concept graph and a snapshot.
C3_PipelineTotal ==
    \A c \in Calls :
        /\ pc[c] # "raised"
        /\ pc[c] = "done" =>
              result[c].concept_graph # None /\ result[c].tldraw_snapshot # None

----------------------------------------------------------------------------
(* C4 *)

\* The external request of call c raised, timed out, or returned a body that
\* cannot be decoded.
UpstreamFailed(c) == upstream[c].kind \in {"request_raises", "body_undecodable"}

\* C4: when the external request fails, the extraction step stores the
\* fallback graph of the original input text and raises nothing, and
\* run_pipeline eventually returns that graph with the snapshot the layout
\* step builds from it.
C4_UpstreamFailureRecovered ==
    \A c \in Calls :
        /\ [](UpstreamFailed(c) =>
                /\ pc[c] # "raised"
                /\ state[c].concept_graph = GenerateFallbackGraph(state[c].input_text))
        /\ UpstreamFailed(c) ~>
                /\ pc[c] = "done"
                /\ result[c].concept_graph = GenerateFallbackGraph(state[c].input_text)
                /\ result[c].tldraw_snapshot =
                      BuildInitialBoard(GenerateFallbackGraph(state[c].input_text)).value

\* A call whose request failed has returned a fallback graph with branches.
C4_Witness ==
    \E c \in Calls :
        /\ pc[c] = "done"
        /\ UpstreamFailed(c)
        /\ Len(result[c].concept_graph.nodes) = 3
        /\ Cardinality(ShapeKeys(result[c].tldraw_snapshot.store)) = 5

----------------------------------------------------------------------------
(* C5 *)

\* C5: for every non-empty graph with N branch nodes the snapshot holds one
\* geo shape per node, N root-to-branch arrows (the arrows without bend) and
\* 1 + N + N + E shape records, E the number of qualifying edges, whatever
\* the node ids.
C5_ShapeCount ==
    \A c \in Calls :
        (LaidOut(c) /\ state[c].concept_graph.nodes # <<>>) =>
            LET g == state[c].concept_graph
                store == state[c].tldraw_snapshot.store
                N == Len(g.nodes) - 1
            IN  /\ Cardinality(GeoKeys(store)) = Len(g.nodes)
                /\ Cardinality({k \in ArrowKeys(store) : store[k].props.bend = 0}) = N
                /\ Cardinality(ShapeKeys(store))
                     = 1 + N + N + Cardinality(QualifyingEdges(g))

----------------------------------------------------------------------------
(* C6 *)

\* C6: for every non-empty graph, whatever its ids, the record
\* shape:<first node id> is an ellipse of width 200 and height 100 whose
\* top-left is (500, 350), carrying the first node's label.
C6_CentralEllipse ==
    \A c \in Calls :
        (LaidOut(c) /\ state[c].concept_graph.nodes # <<>>) =>
            LET first == state[c].concept_graph.nodes[1]
                store == state[c].tldraw_snapshot.store
                key == ShapeId(first.id)
            IN  /\ key \in DOMAIN store
                /\ store[key].type = "geo"
                /\ store[key].props.geo = "ellipse"
                /\ store[key].props.w = 200
                /\ store[key].props.h = 100
                /\ store[key].x = 500 * Scale
                /\ store[key].y = 350 * Scale
                /\ store[key].props.text = Get(first.label, "Main Topic")

----------------------------------------------------------------------------
(* C7 *)

\* C7: the node list of every extracted graph holds no two nodes with the
\* same id.
C7_UniqueNodeIds ==
    \A c \in Calls :
        Extracted(c) =>
            LET nodes == state[c].concept_graph.nodes
            IN  \A i, j \in 1..Len(nodes) : nodes[i].id = nodes[j].id => i = j

----------------------------------------------------------------------------
(* C9 *)

\* C9: for every graph the snapshot holds the records document:document and
\* page:page and the schema block, each equal to the one of the empty
\* snapshot; for a graph without nodes the store holds those two records only.
C9_DocumentEnvelope ==
    \A c \in Calls :
        LaidOut(c) =>
            LET snapshot == state[c].tldraw_snapshot
                empty == CreateEmptySnapshot
            IN  /\ {"document:document", "page:page"} \subseteq DOMAIN snapshot.store
                /\ snapshot.store["document:document"] = empty.store["document:document"]
                /\ snapshot.store["page:page"] = empty.store["page:page"]
                /\ snapshot.schema = empty.schema
                /\ state[c].concept_graph.nodes = <<>> =>
                      DOMAIN snapshot.store = {"document:document", "page:page"}

\* A graph with a branch has been laid out: the store holds shapes beside the
\* two fixed records.
C9_Witness ==
    \E c \in Calls :
        /\ LaidOut(c)
        /\ Len(state[c].concept_graph.nodes) = 2
        /\ Cardinality(DOMAIN state[c].tldraw_snapshot.store) = 5

----------------------------------------------------------------------------
(* C10 *)

----------------------------------------------------------------------------
(* C11 *)

\* The shape ids an arrow record is bound to: its start and its end binding.
BoundIds(arrow) == {arrow.props.start.boundShapeId, arrow.props.end.boundShapeId}

\* C11: in every document the layout step produces, the start binding and the
\* end binding of every arrow record, root-to-branch arrows and edge-list
\* arrows alike, name a shape id that is a key of the same store.
C11_ArrowEndsExist ==
    \A c \in Calls :
        LaidOut(c) =>
            LET store == state[c].tldraw_snapshot.store
            IN  \A k \in ArrowKeys(store) : BoundIds(store[k]) \subseteq DOMAIN store

----------------------------------------------------------------------------
(* C12 *)

\* The centre of a geo shape: its top-left corner plus half its size.
Centre(shape) ==
    [x |-> shape.x + (shape.props.w * Scale) \div 2,
     y |-> shape.y + (shape.props.h * Scale) \div 2]

\* The point of the circle of the branches at an angle in degrees.
OnCircle(deg) ==
    [x |-> center_x * Scale + radius * Cos(deg),
     y |-> center_y * Scale + radius * Sin(deg)]

\* The layout of the root with two branches, with the second branch at the
\* angle deg: an ellipse of 200 by 100 centred at (600, 400), the rectangles
\* of b1 and b2 centred on the circle at -90 degrees and at deg, exactly two
\* arrows, both straight and solid, and no dashed arrow.
TwoBranchLayout(store, deg) ==
    /\ GeoKeys(store) = {"shape:central", "shape:b1", "shape:b2"}
    /\ store["shape:central"].props.geo = "ellipse"
    /\ store["shape:central"].props.w = 200
    /\ store["shape:central"].props.h = 100
    /\ Centre(store["shape:central"]) = [x |-> 600 * Scale, y |-> 400 * Scale]
    /\ store["shape:b1"].props.geo = "rectangle"
    /\ store["shape:b2"].props.geo = "rectangle"
    /\ Centre(store["shape:b1"]) = OnCircle(-90)
    /\ Centre(store["shape:b2"]) = OnCircle(deg)
    /\ Cardinality(ArrowKeys(store)) = 2
    /\ \A k \in ArrowKeys(store) :
          store[k].props.bend = 0 /\ store[k].props.dash = "draw"

\* C12 as stated: for the graph with nodes central, b1, b2 and edges
\* central->b1 and central->b2 the snapshot has one ellipse centred at
\* (600, 400) sized 200 by 100, the two rectangles on the 300-unit circle at
\* -90 degrees and +30 degrees, exactly two straight solid arrows and no
\* dashed arrow.
C12_TwoBranchAtThirty ==
    \A c \in Calls :
        (LaidOut(c) /\ state[c].concept_graph = TwoBranchGraph) =>
            TwoBranchLayout(state[c].tldraw_snapshot.store, 30)

\* C12 amended: the same, with the two rectangles at -90 degrees and +90
\* degrees, the angles 360 * i / 2 - 90 of i = 0, 1.
C12_TwoBranchOpposite ==
    \A c \in Calls :
        (LaidOut(c) /\ state[c].concept_graph = TwoBranchGraph) =>
            /\ TwoBranchLayout(state[c].tldraw_snapshot.store, 90)
            /\ Centre(state[c].tldraw_snapshot.store["shape:b1"])
                  = [x |-> 600 * Scale, y |-> 100 * Scale]
            /\ Centre(state[c].tldraw_snapshot.store["shape:b2"])
                  = [x |-> 600 * Scale, y |-> 700 * Scale]

\* The root with two branches has been laid out and returned.
C12_Witness ==
    \E c \in Calls :
        /\ pc[c] = "done"
        /\ state[c].concept_graph = TwoBranchGraph
        /\ result[c].tldraw_snapshot = state[c].tldraw_snapshot
        /\ Cardinality(ShapeKeys(result[c].tldraw_snapshot.store)) = 5

----------------------------------------------------------------------------
(* C13 *)

\* The p-th edge end of an edge list, in the order the loops of lines 170-171
\* visit them: source, then target, of each edge in turn.
EndAt(edges, p) ==
    IF p % 2 = 1 THEN edges[(p + 1) \div 2].source ELSE edges[p \div 2].target

\* The non-empty edge ends that are not the id of a declared node.
Undeclared(nodes, edges) ==
    {v \in {EndAt(edges, p) : p \in 1..(2 * Len(edges))} :
        Truthy(v) /\ v \notin {nodes[i].id : i \in 1..Len(nodes)}}

\* Where v first appears among the edge ends.
FirstAt(edges, v) ==
    CHOOSE p \in 1..(2 * Len(edges)) :
        EndAt(edges, p) = v /\ \A q \in 1..(p - 1) : EndAt(edges, q) # v

\* g is the graph of the declared nodes and edges with one synthesized node
\* per undeclared edge end, the synthesized nodes after the declared ones in
\* order of first appearance.
Synthesized(g, nodes, edges) ==
    LET new == (Len(nodes) + 1)..Len(g.nodes)
    IN  /\ g.edges = edges
        /\ Len(g.nodes) = Len(nodes) + Cardinality(Undeclared(nodes, edges))
        /\ SubSeq(g.nodes, 1, Len(nodes)) = nodes
        /\ \A j \in new :
              /\ g.nodes[j].id \in Undeclared(nodes, edges)
              /\ g.nodes[j] = Node(g.nodes[j].id, Title(g.nodes[j].id), "")
        /\ \A j, k \in new :
              j < k => FirstAt(edges, g.nodes[j].id) < FirstAt(edges, g.nodes[k].id)

\* C13: for every reply that parses as a JSON object, the extracted graph
\* holds the declared nodes in their order, then exactly one synthesized node
\* (the id, its humanized label, an empty description) per distinct non-empty
\* undeclared edge end in order of first appearance, and every edge; the
\* fenced reply with no nodes and the edge x->y gives the nodes X and Y and
\* that edge.
C13_SyntheticNodes ==
    \A c \in Calls :
        (Extracted(c) /\ HasReply(c) /\ ~Unparseable(upstream[c].content)) =>
            LET d == Loaded(upstream[c].content).value
            IN  Synthesized(state[c].concept_graph, d.nodes, d.edges)

----------------------------------------------------------------------------
(* C14 *)

\* The extraction step of call c stored the heuristic fallback graph: the
\* request gave no content, or parsing the reply raised.
TookFallback(c) ==
    /\ Extracted(c)
    /\ \/ ContentOf(upstream[c]).exc # "none"
       \/ ParseJsonResponse(ContentOf(upstream[c]).value).exc # "none"

\* The positions of the whitespace-delimited tokens of a text.
TokenAt(text) == {p \in 1..Len(text) : text[p] # Space}

\* The positions of the alphabetic tokens longer than 4 characters among the
\* first 100 tokens.
KeptAt(text) ==
    {p \in TokenAt(text) :
        /\ Cardinality({q \in TokenAt(text) : q <= p}) <= 100
        /\ Len(text[p]) > 4
        /\ IsAlpha(text[p])}

\* The position of the i-th kept token.
KeptPos(text, i) ==
    CHOOSE p \in KeptAt(text) : Cardinality({q \in KeptAt(text) : q < p}) = i - 1

\* C14: the fallback raises nothing and returns, for every input text, the
\* root central labelled Main Topic followed by k branch nodes, k the number
\* of alphabetic tokens longer than 4 characters among the first 100 tokens
\* or 6 if there are more, the i-th branch labelled with the i-th such token
\* capitalized, and exactly k edges, the i-th from central to the i-th
\* branch; the node ids are distinct and every edge end is a node.
C14_FallbackGraph ==
    \A c \in Calls :
        TookFallback(c) =>
            LET g == state[c].concept_graph
                text == state[c].input_text
                kept == Cardinality(KeptAt(text))
                k == IF kept > 6 THEN 6 ELSE kept
            IN  /\ g # None
                /\ Len(g.nodes) = k + 1
                /\ g.nodes[1] = Node("central", "Main Topic", "")
                /\ \A i \in 1..k :
                      /\ g.nodes[i + 1].label = Capitalize(text[KeptPos(text, i)])
                      /\ g.nodes[i + 1].description = ""
                /\ Len(g.edges) = k
                /\ \A i \in 1..k : g.edges[i] = Edge("central", g.nodes[i + 1].id, "")
                /\ \A i, j \in 1..(k + 1) : g.nodes[i].id = g.nodes[j].id => i = j
                /\ \A i \in 1..k :
                      g.edges[i].source \in IdsOf(g) /\ g.edges[i].target \in IdsOf(g)

\* The fallback has been taken on a text with more than 6 kept words and has
\* returned 6 branches.
C14_Witness ==
    \E c \in Calls :
        /\ TookFallback(c)
        /\ Cardinality(KeptAt(state[c].input_text)) > 6
        /\ Len(state[c].concept_graph.nodes) = 7
        /\ Len(state[c].concept_graph.edges) = 6

----------------------------------------------------------------------------
(* C15 *)

\* What call c returns when it runs alone on its input text and on the
\* outcome of its request.
Alone(c) ==
    LET graph == ExtractConcepts(state[c].input_text, upstream[c])
    IN  [tldraw_snapshot |-> BuildInitialBoard(graph).value,
         concept_graph |-> graph]

\* A step that does not move call c leaves the state, the request and the
\* result of call c as they were.
Untouched(c) ==
    pc'[c] = pc[c] =>
        state'[c] = state[c] /\ upstream'[c] = upstream[c] /\ result'[c] = result[c]

\* C15: when two run_pipeline calls on the shared service interleave at
\* their await points, the concept graph and the snapshot each call holds and
\* returns are those of the call run alone on its own input text and reply,
\* and no step of one call changes the state, request or result of the other.
C15_NonInterference ==
    /\ [](\A c \in PairCalls :
            /\ Extracted(c) => state[c].concept_graph = Alone(c).concept_graph
            /\ LaidOut(c) => state[c].tldraw_snapshot = Alone(c).tldraw_snapshot
            /\ pc[c] = "done" => result[c] = Alone(c))
    /\ [][\A c \in PairCalls : Untouched(c)]_vars

\* One call has returned while the other, on another text and another
\* reply, stands between its extraction and its layout step.
C15_Witness ==
    /\ pc[1] = "done"
    /\ pc[2] = "build"
    /\ state[1].input_text # state[2].input_text
    /\ result[1].concept_graph # state[2].concept_graph
    /\ Len(result[1].concept_graph.nodes) = 2

----------------------------------------------------------------------------
(* C16 *)

\* The ids of g that have a layout position: those of its nodes.
Placed(g) == {Key(g.nodes[i].id) : i \in 1..Len(g.nodes)}

\* The edges of g that are neither skipped for their source, the central
\* node, nor for an end without a layout position.
Drawn(g) ==
    {i \in 1..Len(g.edges) :
        /\ Key(g.edges[i].source) \in Placed(g)
        /\ Key(g.edges[i].target) \in Placed(g)
        /\ Key(g.edges[i].source) # Key(g.nodes[1].id)}

\* The arrows of a store that are bent.
Curved(store) == {k \in ArrowKeys(store) : store[k].props.bend # 0}

\* The arrow is the one the edge list asks for: dashed, of size s, bound from
\* the shape of the edge's source to the shape of its target, with the
\* edge's label as text.
ArrowOf(arrow, edge) ==
    /\ arrow.props.dash = "dashed"
    /\ arrow.props.size = "s"
    /\ arrow.props.start.boundShapeId = ShapeId(edge.source)
    /\ arrow.props.end.boundShapeId = ShapeId(edge.target)
    /\ arrow.props.text = Get(edge.label, "")

\* C16: the layout step ends without an error whatever the edges; an edge
\* whose source is the central node, or whose source or target has no layout
\* position, produces no arrow; every other edge produces exactly one arrow,
\* dashed, of size s, bent, bound from shape:<source> to shape:<target> and
\* carrying the edge's label; the arrows without bend are the root-to-branch
\* arrows only.
C16_EdgeArrows ==
    \A c \in Calls :
        /\ pc[c] # "raised"
        /\ LaidOut(c) =>
              LET g == state[c].concept_graph
                  store == state[c].tldraw_snapshot.store
              IN  IF g.nodes = <<>> THEN ArrowKeys(store) = {}
                  ELSE /\ Cardinality(Curved(store)) = Cardinality(Drawn(g))
                       /\ \A i \in Drawn(g) :
                             \E k \in Curved(store) : ArrowOf(store[k], g.edges[i])
                       /\ \A k \in ArrowKeys(store) \ Curved(store) :
                             /\ store[k].props.dash = "draw"
                             /\ store[k].props.start.boundShapeId
                                   = ShapeId(g.nodes[1].id)
                             /\ \E j \in 2..Len(g.nodes) :
                                   store[k].props.end.boundShapeId
                                     = ShapeId(g.nodes[j].id)

----------------------------------------------------------------------------
(* C17 *)

\* The value stored for the key of the requests, None when there is none.
StoredValue == StoreGet(db, UserId, LectureId)

\* The concept graph stored for the key, None when no whiteboard is stored
\* or it holds no graph.
StoredGraph == IF StoredValue = None THEN None ELSE StoredValue.concept_graph

\* The snapshot stored for the key.
StoredSnapshot == IF StoredValue = None THEN None ELSE StoredValue.tldraw_snapshot

\* The step is the store.put of the save request r.
SavePutStep(r) ==
    req[r].kind = "save" /\ req[r].pc = "put" /\ req'[r].pc = "responded"

\* C17: with a connected store, under every interleaving of init and save
\* requests for one key, a concept graph that init has stored stays the
\* stored concept graph in every later step, and the write of a save leaves
\* the stored concept graph as it was.
C17_SavePreservesGraph ==
    [][db.connected =>
          /\ StoredGraph # None => StoredGraph' = StoredGraph
          /\ \A r \in Requests : SavePutStep(r) => StoredGraph' = StoredGraph]_vars

----------------------------------------------------------------------------
(* C18 *)

\* The init request r has been answered from a whiteboard its existence
\* check found.
FoundExisting(r) ==
    req[r].kind = "init" /\ req[r].pc = "responded" /\ req[r].existing # None

\* The response carries the concept graph stored: the same nodes and edges
\* by id, label, source and target, none when no graph is stored.
SameGraph(model, stored) ==
    IF stored = None THEN model.nodes = <<>> /\ model.edges = <<>>
    ELSE /\ Len(model.nodes) = Len(stored.nodes)
         /\ \A i \in 1..Len(stored.nodes) :
               /\ model.nodes[i].id = stored.nodes[i].id
               /\ model.nodes[i].label = Get(stored.nodes[i].label, NULL)
         /\ Len(model.edges) = Len(stored.edges)
         /\ \A i \in 1..Len(stored.edges) :
               /\ model.edges[i].source = stored.edges[i].source
               /\ model.edges[i].target = stored.edges[i].target

\* The step answers the init request r.
InitAnswerStep(r) ==
    req[r].kind = "init" /\ req[r].pc # "responded" /\ req'[r].pc = "responded"

\* C18: with a connected store, an init request whose existence check finds
\* a stored whiteboard answers with the stored snapshot and concept graph,
\* runs no pipeline and writes nothing to the store; and an init request that
\* starts after a save has been answered leaves the stored snapshot as it is.
C18_InitReturnsStored ==
    /\ [](db.connected =>
            \A r \in Requests :
                FoundExisting(r) =>
                    /\ pc[r] = "idle"
                    /\ req[r].response.status = 200
                    /\ req[r].response.body.tldraw_snapshot
                          = req[r].existing.tldraw_snapshot
                    /\ SameGraph(req[r].response.body.concept_graph,
                                 req[r].existing.concept_graph))
    /\ [][db.connected =>
            \A r \in Requests :
                /\ (InitAnswerStep(r) /\ req[r].pc = "get") => db' = db
                /\ (InitAnswerStep(r) /\ \E q \in req[r].after : req[q].kind = "save")
                      => StoredSnapshot' = StoredSnapshot]_vars

====
